---- MODULE Spec2Model ----
(***************************************************************************)
(* Model of the guest-side binding of the HTTP plugin                      *)
(* (plugins/http/guest-js/index.ts): the fetch function, the engine calls  *)
(* it makes through invoke, and the caller's AbortSignal.                  *)
(*                                                                         *)
(* JavaScript runs the binding on one thread: the code between two awaits  *)
(* is one atomic step, and an abort event or an engine reply can only      *)
(* arrive while a fetch is suspended at an await.  Each action below is    *)
(* one such step.                                                          *)
(***************************************************************************)
EXTENDS Integers, Sequences, FiniteSets, TLC

\* ------------------------------------------------------------------------
\* Bounds of the model
MaxBodyLen == 2     \* longest request body drawn
MaxRid == 3         \* resource ids the engine can hand out are 1..MaxRid

\* ------------------------------------------------------------------------
\* Optional values (null / undefined in the source)
None == <<>>
Some(x) == <<x>>
Get(o) == o[1]

\* ------------------------------------------------------------------------
\* Constants of the source
ERROR_REQUEST_CANCELLED == "Request canceled"

\* 'http_unsafe_header_' as a sequence of characters
UNSAFE_HEADER_PREFIX ==
  <<"h","t","t","p","_","u","n","s","a","f","e","_","h","e","a","d","e","r","_">>

CMD_FETCH == "plugin:http|fetch"
CMD_CANCEL == "plugin:http|fetch_cancel"
CMD_SEND == "plugin:http|fetch_send"
CMD_READ_BODY == "plugin:http|fetch_read_body"

ProtocolCmds == {CMD_FETCH, CMD_SEND, CMD_READ_BODY}

\* new Error(ERROR_REQUEST_CANCELLED): an Error object made by the binding
CancelError == [origin |-> "binding", name |-> "Error", message |-> ERROR_REQUEST_CANCELLED]

\* what a rejected invoke throws: the engine's serialized error
EngineError(m) == [origin |-> "engine", name |-> "invoke", message |-> m]

\* what the Response constructor throws
CtorError(n) == [origin |-> "runtime", name |-> n, message |-> "Response"]

\* ------------------------------------------------------------------------
\* String operations used by the header loop
StartsWith(s, p) == Len(s) >= Len(p) /\ SubSeq(s, 1, Len(p)) = p
Substring(s, n) == SubSeq(s, n + 1, Len(s))

\* one iteration of the loop over req.headers.entries()
RECURSIVE StripEvery(_)
StripEvery(key) ==
  IF StartsWith(key, UNSAFE_HEADER_PREFIX)
    THEN StripEvery(Substring(key, Len(UNSAFE_HEADER_PREFIX)))
    ELSE key

MapHeader_StripAll(h) == <<StripEvery(h[1]), h[2]>>

MapHeader(h) ==
  LET key == h[1]
      value == h[2]
  IN  IF StartsWith(key, UNSAFE_HEADER_PREFIX)
        THEN <<Substring(key, Len(UNSAFE_HEADER_PREFIX)), value>>
        ELSE <<key, value>>

RECURSIVE MapHeaders(_)
MapHeaders(hs) ==
  IF hs = <<>> THEN <<>>
  ELSE Append(MapHeaders(SubSeq(hs, 1, Len(hs) - 1)), MapHeader(hs[Len(hs)]))

\* data = buffer.byteLength !== 0 ? Array.from(new Uint8Array(buffer)) : null
CaptureData_NoNull(buffer) == Some([i \in 1..Len(buffer) |-> buffer[i]])

CaptureData(buffer) ==
  IF Len(buffer) # 0 THEN Some([i \in 1..Len(buffer) |-> buffer[i]]) ELSE None

\* the argument of the issue call
ClientConfig(r) ==
  [method |-> r.method, url |-> r.url, headers |-> MapHeaders(r.headers),
   data |-> CaptureData(r.body), options |-> r.options]

\* the arguments of the cancel call, the status call and the body call
CancelArgs(rid) == [rid |-> rid]
SendArgs(rid) == [rid |-> rid]

ReadBodyArgs_RequestRid(requestRid, sr) == [rid |-> requestRid]

ReadBodyArgs(requestRid, sr) == [rid |-> sr.rid]

\* what an await of a rejected invoke throws out of fetch
Propagate_Masked(isAborted, err) ==
  IF isAborted
    THEN [origin |-> "binding", name |-> "Error", message |-> ERROR_REQUEST_CANCELLED]
    ELSE err

Propagate(isAborted, err) == err

\* ------------------------------------------------------------------------
\* Response assembly

\* new Uint8Array(body) for a number[] reply
ToUint8Array(arr) == [i \in 1..Len(arr) |-> arr[i] % 256]

\* the first argument of new Response(...)
ResponseBody(body) ==
  IF body.kind = "ArrayBuffer" /\ Len(body.bytes) # 0
    THEN Some(body.bytes)
    ELSE IF body.kind = "Array" /\ Len(body.bytes) > 0
           THEN Some(ToUint8Array(body.bytes))
           ELSE None

\* new Headers(init): every pair of init is appended to the header list
RECURSIVE NewHeaders(_)
NewHeaders(init) ==
  IF init = <<>> THEN <<>>
  ELSE Append(NewHeaders(SubSeq(init, 1, Len(init) - 1)), init[Len(init)])

NullBodyStatus == {101, 103, 204, 205, 304}

AssembleResponse_RequestUrl(r, sr, body) ==
  LET b == ResponseBody(body)
  IN  IF sr.status < 200 \/ sr.status > 599
        THEN [ok |-> FALSE, error |-> CtorError("RangeError")]
        ELSE IF b # None /\ sr.status \in NullBodyStatus
               THEN [ok |-> FALSE, error |-> CtorError("TypeError")]
               ELSE [ok |-> TRUE,
                     response |-> [status |-> sr.status,
                                   statusText |-> sr.statusText,
                                   url |-> r.url,
                                   headers |-> NewHeaders(sr.headers),
                                   body |-> b]]

\* new Response(body, {status, statusText}) followed by the two
\* Object.defineProperty calls; the constructor throws on a status outside
\* 200..599 and on a body given with a null body status
AssembleResponse(r, sr, body) ==
  LET b == ResponseBody(body)
  IN  IF sr.status < 200 \/ sr.status > 599
        THEN [ok |-> FALSE, error |-> CtorError("RangeError")]
        ELSE IF b # None /\ sr.status \in NullBodyStatus
               THEN [ok |-> FALSE, error |-> CtorError("TypeError")]
               ELSE [ok |-> TRUE,
                     response |-> [status |-> sr.status,
                                   statusText |-> sr.statusText,
                                   url |-> sr.url,
                                   headers |-> NewHeaders(sr.headers),
                                   body |-> b]]

\* ------------------------------------------------------------------------
\* Inputs of a fetch call and replies of the engine

Fetches == {"f1", "f2"}

ByteVals == {0, 255}
Bodies == UNION {[1..n -> ByteVals] : n \in 0..MaxBodyLen}

\* header names a Request can hold, in the order req.headers iterates them
\* (sorted by name): "a", "http", the prefix twice before "o", the prefix
\* before "o"
HeaderPool ==
  << <<"a">>,
     SubSeq(UNSAFE_HEADER_PREFIX, 1, 4),
     UNSAFE_HEADER_PREFIX \o UNSAFE_HEADER_PREFIX \o <<"o">>,
     UNSAFE_HEADER_PREFIX \o <<"o">> >>
HeaderValues == <<"v1", "v2", "v3", "v4">>

\* the entries of the pool whose index is in S, in pool order
RECURSIVE PickHeaders(_, _)
PickHeaders(S, n) ==
  IF n = 0 THEN <<>>
  ELSE IF n \in S
         THEN Append(PickHeaders(S, n - 1), <<HeaderPool[n], HeaderValues[n]>>)
         ELSE PickHeaders(S, n - 1)

HeaderLists == {PickHeaders(S, Len(HeaderPool)) : S \in SUBSET (1..Len(HeaderPool))}

RequestUrl == "http://h/data.json"

\* new Request(input, init) seen through method, url, headers.entries() and
\* arrayBuffer(); a request with a body is not a GET.  The source handles the
\* body (data) and the headers (mappedHeaders) apart from each other, so the
\* requests drawn vary one of the two at a time.
Requests ==
  {[method |-> IF rq[2] = <<>> THEN "GET" ELSE "POST", url |-> RequestUrl,
    headers |-> rq[1], body |-> rq[2], options |-> "options"] :
     rq \in {x \in HeaderLists \X Bodies : x[1] = <<>> \/ x[2] = <<>>}}

\* requests of the concurrent specification
NarrowRequests ==
  {r \in Requests : r.body = <<>> /\ Len(r.headers) = 0}

EngineErrors == {EngineError("url not allowed on the configured scope"),
                 EngineError(ERROR_REQUEST_CANCELLED)}

StatusText(s) ==
  CASE s = 200 -> "OK"
    [] s = 204 -> "No Content"
    [] OTHER -> "Switching Protocols"

ReplyHeaderLists ==
  { << <<"content-type", "application/json">> >>,
    << <<"set-cookie", "b=2">>, <<"set-cookie", "a=1">> >> }

\* the FetchSendResponse values the engine can reply with, for body handle r
StatusReplies(r) ==
  {[status |-> s, statusText |-> StatusText(s), url |-> u, headers |-> hs, rid |-> r] :
     s \in {200, 204, 101}, u \in {RequestUrl, "http://h/final"},
     hs \in ReplyHeaderLists}

BodyReplies ==
  {[kind |-> k, bytes |-> b] :
     k \in {"ArrayBuffer", "Array"}, b \in {<<>>, <<123, 125>>}}

Pending == [state |-> "pending"]
Ok(v) == [state |-> "ok", value |-> v]
Err(e) == [state |-> "err", error |-> e]

\* ------------------------------------------------------------------------
\* State

VARIABLES
  active,        \* the fetch calls of this run
  pc,            \* where each fetch is: "idle" (not called yet), the await it
                 \* is suspended at ("capture", "issue", "status", "body"),
                 \* or how it settled ("resolved", "rejected")
  req,           \* the Request each fetch constructs
  signal,        \* init.signal: "absent", "live" or "aborted"
  abortedAt,     \* history: the pc of the fetch when its signal fired
  listener,      \* whether the 'abort' listener has been added to the signal
  rid,           \* const rid, once the issue call has returned it
  sendResponse,  \* the FetchSendResponse, once the status call has returned it
  result,        \* the settled value of the promise fetch returned
  calls          \* history: per fetch, every invoke in the order it was made,
                 \* with its command, its argument, whether the signal was
                 \* aborted when it was made, and the engine's reply

vars == <<active, pc, req, signal, abortedAt, listener, rid, sendResponse, result, calls>>

DefaultRequest ==
  [method |-> "GET", url |-> RequestUrl, headers |-> <<>>, body |-> <<>>,
   options |-> "options"]

InitFetch(A, Reqs) ==
  /\ active = A
  /\ pc = [f \in Fetches |-> "idle"]
  /\ req \in {q \in [Fetches -> Reqs \cup {DefaultRequest}] :
                \A f \in Fetches \ A : q[f] = DefaultRequest}
  /\ signal \in {s \in [Fetches -> {"absent", "live"}] :
                   \A f \in Fetches \ A : s[f] = "absent"}
  /\ abortedAt = [f \in Fetches |-> "never"]
  /\ listener = [f \in Fetches |-> FALSE]
  /\ rid = [f \in Fetches |-> None]
  /\ sendResponse = [f \in Fetches |-> None]
  /\ result = [f \in Fetches |-> None]
  /\ calls = [f \in Fetches |-> <<>>]

Init == InitFetch({"f1"}, Requests)

\* ------------------------------------------------------------------------
\* Helpers of the actions

\* the handles the engine can hand out: MaxRid of them for one fetch, one
\* more for every further fetch of the run
Rids == 1..(MaxRid + Cardinality(active) - 1)

\* signal?.aborted at the three places the source reads it
AbortedOnEntry_NoSignal(f) == signal[f] # "live"

AbortedOnEntry(f) == signal[f] = "aborted"

AbortedBeforeIssue_Skipped(f) == FALSE

AbortedBeforeIssue(f) == signal[f] = "aborted"

AbortedAfterIssue_Skipped(f) == FALSE

AbortedAfterIssue(f) == signal[f] = "aborted"

\* invoke(cmd, arg): the call is sent and its promise is pending
Invoke(log, f, cmd, arg) ==
  Append(log, [cmd |-> cmd, arg |-> arg, aborted |-> signal[f] = "aborted",
               reply |-> Pending])

\* the outstanding call of a fetch for a protocol command
PendingIndex(f, cmd) ==
  CHOOSE i \in 1..Len(calls[f]) :
    calls[f][i].cmd = cmd /\ calls[f][i].reply.state = "pending"

Replied(log, i, reply) == [log EXCEPT ![i].reply = reply]

\* handles the engine has handed out and not been asked to reuse
UsedRids ==
  {Get(rid[f]) : f \in {g \in Fetches : rid[g] # None}}
    \cup {Get(sendResponse[f]).rid : f \in {g \in Fetches : sendResponse[g] # None}}

Throw(f, e) ==
  /\ pc' = [pc EXCEPT ![f] = "rejected"]
  /\ result' = [result EXCEPT ![f] = Some([ok |-> FALSE, error |-> e])]

\* ------------------------------------------------------------------------
\* Actions

\* fetch(input, init, options) is called: the entry check, new Request, and
\* the suspension at req.arrayBuffer()
Call(f) ==
  /\ pc[f] = "idle"
  /\ IF AbortedOnEntry(f)
       THEN Throw(f, CancelError)
       ELSE /\ pc' = [pc EXCEPT ![f] = "capture"]
            /\ UNCHANGED result
  /\ UNCHANGED <<active, req, signal, abortedAt, listener, rid, sendResponse, calls>>

\* arrayBuffer() resolves: data, the header loop, the second check, and the
\* issue call
CaptureDone(f) ==
  /\ pc[f] = "capture"
  /\ IF AbortedBeforeIssue(f)
       THEN /\ Throw(f, CancelError)
            /\ UNCHANGED calls
       ELSE /\ calls' = [calls EXCEPT ![f] =
                           Invoke(@, f, CMD_FETCH, [clientConfig |-> ClientConfig(req[f])])]
            /\ pc' = [pc EXCEPT ![f] = "issue"]
            /\ UNCHANGED result
  /\ UNCHANGED <<active, req, signal, abortedAt, listener, rid, sendResponse>>

\* the issue call resolves with a handle: the third check, the best-effort
\* cancel, the listener, and the status call
IssueReplyOk(f, r) ==
  /\ pc[f] = "issue"
  /\ r \in Rids \ UsedRids
  /\ rid' = [rid EXCEPT ![f] = Some(r)]
  /\ LET log == Replied(calls[f], PendingIndex(f, CMD_FETCH), Ok(r))
     IN  IF AbortedAfterIssue(f)
           THEN /\ calls' = [calls EXCEPT ![f] = Invoke(log, f, CMD_CANCEL, CancelArgs(r))]
                /\ Throw(f, CancelError)
                /\ UNCHANGED listener
           ELSE /\ listener' = [listener EXCEPT ![f] = signal[f] # "absent"]
                /\ calls' = [calls EXCEPT ![f] = Invoke(log, f, CMD_SEND, SendArgs(r))]
                /\ pc' = [pc EXCEPT ![f] = "status"]
                /\ UNCHANGED result
  /\ UNCHANGED <<active, req, signal, abortedAt, sendResponse>>

\* the issue call rejects
IssueReplyErr(f, e) ==
  /\ pc[f] = "issue"
  /\ calls' = [calls EXCEPT ![f] = Replied(@, PendingIndex(f, CMD_FETCH), Err(e))]
  /\ Throw(f, Propagate(signal[f] = "aborted", e))
  /\ UNCHANGED <<active, req, signal, abortedAt, listener, rid, sendResponse>>

\* the status call resolves: the body call is made
StatusReplyOk_ResolveEarly(f, sr) ==
  /\ pc[f] = "status"
  /\ sr.rid \in 1..MaxRid
  /\ sendResponse' = [sendResponse EXCEPT ![f] = Some(sr)]
  /\ calls' = [calls EXCEPT ![f] = Replied(@, PendingIndex(f, CMD_SEND), Ok(sr))]
  /\ LET res == AssembleResponse(req[f], sr, [kind |-> "Array", bytes |-> <<>>])
     IN  IF res.ok
           THEN /\ pc' = [pc EXCEPT ![f] = "resolved"]
                /\ result' = [result EXCEPT ![f] = Some(res)]
           ELSE Throw(f, res.error)
  /\ UNCHANGED <<active, req, signal, abortedAt, listener, rid>>

StatusReplyOk(f, sr) ==
  /\ pc[f] = "status"
  /\ sr.rid \in Rids \ UsedRids
  /\ sendResponse' = [sendResponse EXCEPT ![f] = Some(sr)]
  /\ calls' = [calls EXCEPT ![f] =
                 Invoke(Replied(@, PendingIndex(f, CMD_SEND), Ok(sr)), f,
                        CMD_READ_BODY, ReadBodyArgs(Get(rid[f]), sr))]
  /\ pc' = [pc EXCEPT ![f] = "body"]
  /\ UNCHANGED <<active, req, signal, abortedAt, listener, rid, result>>

\* the status call rejects
StatusReplyErr(f, e) ==
  /\ pc[f] = "status"
  /\ calls' = [calls EXCEPT ![f] = Replied(@, PendingIndex(f, CMD_SEND), Err(e))]
  /\ Throw(f, Propagate(signal[f] = "aborted", e))
  /\ UNCHANGED <<active, req, signal, abortedAt, listener, rid, sendResponse>>

\* the body call resolves: the response is assembled and returned
BodyReplyOk(f, body) ==
  /\ pc[f] = "body"
  /\ calls' = [calls EXCEPT ![f] = Replied(@, PendingIndex(f, CMD_READ_BODY), Ok(body))]
  /\ LET res == AssembleResponse(req[f], Get(sendResponse[f]), body)
     IN  IF res.ok
           THEN /\ pc' = [pc EXCEPT ![f] = "resolved"]
                /\ result' = [result EXCEPT ![f] = Some(res)]
           ELSE Throw(f, res.error)
  /\ UNCHANGED <<active, req, signal, abortedAt, listener, rid, sendResponse>>

\* the body call rejects
BodyReplyErr(f, e) ==
  /\ pc[f] = "body"
  /\ calls' = [calls EXCEPT ![f] = Replied(@, PendingIndex(f, CMD_READ_BODY), Err(e))]
  /\ Throw(f, Propagate(signal[f] = "aborted", e))
  /\ UNCHANGED <<active, req, signal, abortedAt, listener, rid, sendResponse>>

\* the caller aborts the signal: the 'abort' event runs the listener, if one
\* was added, which makes the cancel call and drops its promise
Abort_EarlyListener(f) ==
  /\ signal[f] = "live"
  /\ signal' = [signal EXCEPT ![f] = "aborted"]
  /\ abortedAt' = [abortedAt EXCEPT ![f] = pc[f]]
  /\ calls' = IF listener[f] \/ pc[f] \in {"capture", "issue"}
                THEN [calls EXCEPT ![f] =
                        Append(@, [cmd |-> CMD_CANCEL,
                                   arg |-> IF rid[f] = None THEN [rid |-> 0]
                                           ELSE CancelArgs(Get(rid[f])),
                                   aborted |-> TRUE, reply |-> Pending])]
                ELSE calls
  /\ UNCHANGED <<active, pc, req, listener, rid, sendResponse, result>>

Abort_SharedRid(f) ==
  /\ signal[f] = "live"
  /\ signal' = [signal EXCEPT ![f] = "aborted"]
  /\ abortedAt' = [abortedAt EXCEPT ![f] = pc[f]]
  /\ calls' = IF listener[f]
                THEN LET others == {g \in Fetches \ {f} : rid[g] # None}
                         last == IF others = {} THEN f ELSE CHOOSE g \in others : TRUE
                     IN  [calls EXCEPT ![f] =
                            Append(@, [cmd |-> CMD_CANCEL,
                                       arg |-> CancelArgs(Get(rid[last])),
                                       aborted |-> TRUE, reply |-> Pending])]
                ELSE calls
  /\ UNCHANGED <<active, pc, req, listener, rid, sendResponse, result>>

Abort_Detached(f) ==
  /\ signal[f] = "live"
  /\ signal' = [signal EXCEPT ![f] = "aborted"]
  /\ abortedAt' = [abortedAt EXCEPT ![f] = pc[f]]
  /\ calls' = IF listener[f] /\ pc[f] \notin {"resolved", "rejected"}
                THEN [calls EXCEPT ![f] =
                        Append(@, [cmd |-> CMD_CANCEL, arg |-> CancelArgs(Get(rid[f])),
                                   aborted |-> TRUE, reply |-> Pending])]
                ELSE calls
  /\ UNCHANGED <<active, pc, req, listener, rid, sendResponse, result>>

Abort(f) ==
  /\ signal[f] = "live"
  /\ signal' = [signal EXCEPT ![f] = "aborted"]
  /\ abortedAt' = [abortedAt EXCEPT ![f] = pc[f]]
  /\ calls' = IF listener[f]
                THEN [calls EXCEPT ![f] =
                        Append(@, [cmd |-> CMD_CANCEL, arg |-> CancelArgs(Get(rid[f])),
                                   aborted |-> TRUE, reply |-> Pending])]
                ELSE calls
  /\ UNCHANGED <<active, pc, req, listener, rid, sendResponse, result>>

\* the engine answers a cancel call; nothing awaits the answer
CancelReply_Awaited(f, i, reply) ==
  /\ i \in 1..Len(calls[f])
  /\ calls[f][i].cmd = CMD_CANCEL
  /\ calls[f][i].reply.state = "pending"
  /\ calls' = [calls EXCEPT ![f] = Replied(@, i, reply)]
  /\ IF reply.state = "err" /\ pc[f] \in {"status", "body"}
       THEN Throw(f, reply.error)
       ELSE UNCHANGED <<pc, result>>
  /\ UNCHANGED <<active, req, signal, abortedAt, listener, rid, sendResponse>>

CancelReply(f, i, reply) ==
  /\ i \in 1..Len(calls[f])
  /\ calls[f][i].cmd = CMD_CANCEL
  /\ calls[f][i].reply.state = "pending"
  /\ calls' = [calls EXCEPT ![f] = Replied(@, i, reply)]
  /\ UNCHANGED <<active, pc, req, signal, abortedAt, listener, rid, sendResponse, result>>

Next ==
  \E f \in active :
    \/ Call(f)
    \/ CaptureDone(f)
    \/ \E r \in Rids : IssueReplyOk(f, r)
    \/ \E e \in EngineErrors : IssueReplyErr(f, e)
    \/ \E r \in Rids : \E sr \in StatusReplies(r) : StatusReplyOk(f, sr)
    \/ \E e \in EngineErrors : StatusReplyErr(f, e)
    \/ \E body \in BodyReplies : BodyReplyOk(f, body)
    \/ \E e \in EngineErrors : BodyReplyErr(f, e)
    \/ Abort(f)
    \/ \E i \in 1..Len(calls[f]) :
         \E reply \in {Ok("null")} \cup {Err(e) : e \in EngineErrors} :
           CancelReply(f, i, reply)

Spec == Init /\ [][Next]_vars

\* The engine answers every issue, status and body call, and the runtime
\* resolves arrayBuffer(); nothing is assumed about cancel calls, about the
\* caller calling fetch, or about the caller aborting.
EngineReplies ==
  \A f \in Fetches :
    /\ WF_vars(CaptureDone(f))
    /\ WF_vars((\E r \in Rids : IssueReplyOk(f, r))
                 \/ (\E e \in EngineErrors : IssueReplyErr(f, e)))
    /\ WF_vars((\E r \in Rids : \E sr \in StatusReplies(r) : StatusReplyOk(f, sr))
                 \/ (\E e \in EngineErrors : StatusReplyErr(f, e)))
    /\ WF_vars((\E body \in BodyReplies : BodyReplyOk(f, body))
                 \/ (\E e \in EngineErrors : BodyReplyErr(f, e)))

\* Concurrent fetches: every fetch of Fetches is called, with its own signal;
\* the engine's replies are drawn from one status reply, one body reply and
\* one error per call.
ConcStatusReplies(r) ==
  {sr \in StatusReplies(r) :
     sr.status = 200 /\ sr.url # RequestUrl /\ Len(sr.headers) = 1}

ConcBodyReplies == {b \in BodyReplies : b.kind = "Array" /\ b.bytes # <<>>}

ConcErrors == {EngineError(ERROR_REQUEST_CANCELLED)}

InitConc == InitFetch(Fetches, NarrowRequests)

NextConc ==
  \E f \in active :
    \/ Call(f)
    \/ CaptureDone(f)
    \/ \E r \in Rids : IssueReplyOk(f, r)
    \/ \E e \in ConcErrors : IssueReplyErr(f, e)
    \/ \E r \in Rids : \E sr \in ConcStatusReplies(r) : StatusReplyOk(f, sr)
    \/ \E e \in ConcErrors : StatusReplyErr(f, e)
    \/ \E body \in ConcBodyReplies : BodyReplyOk(f, body)
    \/ \E e \in ConcErrors : BodyReplyErr(f, e)
    \/ Abort(f)
    \/ \E i \in 1..Len(calls[f]) :
         \E reply \in {Ok("null")} \cup {Err(e) : e \in ConcErrors} :
           CancelReply(f, i, reply)

SpecConc == InitConc /\ [][NextConc]_vars

InitLive == InitFetch({"f1"}, NarrowRequests)

SpecLive == InitLive /\ [][Next]_vars /\ EngineReplies

\* ------------------------------------------------------------------------
\* Vocabulary of the properties

Settled(f) == pc[f] \in {"resolved", "rejected"}
RejectedWith(f, e) == pc[f] = "rejected" /\ Get(result[f]).error = e
CallsOf(f, cmd) == {i \in 1..Len(calls[f]) : calls[f][i].cmd = cmd}
HasPrefix(name) ==
  /\ Len(name) >= Len(UNSAFE_HEADER_PREFIX)
  /\ \A j \in 1..Len(UNSAFE_HEADER_PREFIX) : name[j] = UNSAFE_HEADER_PREFIX[j]

\* ------------------------------------------------------------------------
\* C1: a fetch whose signal fired before the call, or while the request body
\* was being captured, makes no engine call at all and, once it runs past
\* the capture, is rejected with the cancellation error.
C1_NoEngineCallWhenAbortedBeforeIssue ==
  \A f \in Fetches :
    abortedAt[f] \in {"idle", "capture"} =>
      /\ calls[f] = <<>>
      /\ pc[f] \in {"idle", "capture", "rejected"}
      /\ pc[f] = "rejected" => RejectedWith(f, CancelError)

C1_Witness ==
  \E f \in Fetches :
    /\ abortedAt[f] = "capture"
    /\ RejectedWith(f, CancelError)
    /\ calls[f] = <<>>

\* C2: a fetch whose signal fires after the issue call returned a handle and
\* before the status reply arrives makes a cancel call for that handle and
\* ends in the cancellation error, whatever the engine replies.
C2_CancelledBeforeStatusIsCancellationError ==
  \A f \in Fetches :
    abortedAt[f] = "status" =>
      /\ \E i \in CallsOf(f, CMD_CANCEL) : calls[f][i].arg = [rid |-> Get(rid[f])]
      /\ Settled(f) => RejectedWith(f, CancelError)

\* C3: none of the issue, status and body calls is sent while the signal is
\* aborted; the fetch is rejected with the cancellation error instead.
C3_NoProtocolCallWhileAborted ==
  \A f \in Fetches :
    \A i \in 1..Len(calls[f]) :
      calls[f][i].cmd \in ProtocolCmds => ~calls[f][i].aborted

\* C4: when the signal fires while the issue call is outstanding and the
\* engine then returns a handle, the fetch's calls are the issue call and a
\* cancel call with that handle, nothing else, and the fetch is rejected with
\* the cancellation error.
C4_AbortDuringIssueCancelsHandle ==
  \A f \in Fetches :
    (abortedAt[f] = "issue" /\ rid[f] # None) =>
      /\ RejectedWith(f, CancelError)
      /\ Len(calls[f]) = 2
      /\ calls[f][1].cmd = CMD_FETCH
      /\ calls[f][1].reply.state = "ok"
      /\ calls[f][1].reply.value = Get(rid[f])
      /\ calls[f][2].cmd = CMD_CANCEL
      /\ calls[f][2].arg = [rid |-> calls[f][1].reply.value]

C4_Witness ==
  \E f \in Fetches :
    /\ abortedAt[f] = "issue"
    /\ rid[f] # None
    /\ CallsOf(f, CMD_CANCEL) # {}

\* C5 as stated: a fetch whose signal fired before or during the issue call
\* is rejected with the cancellation error and with nothing else, also when
\* the engine rejects the issue call.
C5_Original_AlwaysCancellationError ==
  \A f \in Fetches :
    (abortedAt[f] \in {"idle", "capture", "issue"} /\ Settled(f)) =>
      RejectedWith(f, CancelError)

\* C5 amended: a fetch whose signal fired before or during the issue call is
\* rejected with the cancellation error, except when the engine rejects the
\* issue call: then it is rejected with the error of that reply (and the
\* signal fired during the issue call, and no handle was obtained).
C5_CancellationErrorUnlessIssueRejected ==
  \A f \in Fetches :
    (abortedAt[f] \in {"idle", "capture", "issue"} /\ Settled(f)) =>
      \/ RejectedWith(f, CancelError)
      \/ /\ abortedAt[f] = "issue"
         /\ rid[f] = None
         /\ Len(calls[f]) = 1
         /\ calls[f][1].cmd = CMD_FETCH
         /\ calls[f][1].reply.state = "err"
         /\ RejectedWith(f, calls[f][1].reply.error)

C5_Witness ==
  \E f \in Fetches :
    /\ abortedAt[f] = "issue"
    /\ rid[f] # None
    /\ RejectedWith(f, CancelError)

\* C6: when the engine rejects the issue, status or body call, the fetch is
\* rejected with exactly the error of that reply, and no issue, status or
\* body call is made after the rejected one.
C6_EngineErrorPropagatedVerbatim ==
  \A f \in Fetches :
    \A i \in 1..Len(calls[f]) :
      (calls[f][i].cmd \in ProtocolCmds /\ calls[f][i].reply.state = "err") =>
        /\ RejectedWith(f, calls[f][i].reply.error)
        /\ \A j \in 1..Len(calls[f]) : j > i => calls[f][j].cmd = CMD_CANCEL
        /\ \A c \in ProtocolCmds : Cardinality(CallsOf(f, c)) <= 1

C6_Witness ==
  \E f \in Fetches :
    /\ signal[f] = "aborted"
    /\ CallsOf(f, CMD_SEND) # {}
    /\ \E i \in CallsOf(f, CMD_SEND) : calls[f][i].reply.state = "err"
    /\ pc[f] = "rejected"

\* C7: the issue call carries one pair per header of the request, in the
\* request's order; a name that starts with the reserved prefix is sent with
\* the prefix removed once, any other name as it is, the value as it is.
C7_HeaderTranslation ==
  \A f \in Fetches :
    \A i \in CallsOf(f, CMD_FETCH) :
      LET hs == req[f].headers
          ms == calls[f][i].arg.clientConfig.headers
      IN  /\ Len(ms) = Len(hs)
          /\ \A k \in 1..Len(hs) :
               /\ ms[k][2] = hs[k][2]
               /\ IF HasPrefix(hs[k][1])
                    THEN UNSAFE_HEADER_PREFIX \o ms[k][1] = hs[k][1]
                    ELSE ms[k][1] = hs[k][1]

C7_Witness ==
  \E f \in Fetches :
    /\ CallsOf(f, CMD_FETCH) # {}
    /\ Len(req[f].headers) = Len(HeaderPool)
    /\ calls[f][1].arg.clientConfig.headers[3][1] = UNSAFE_HEADER_PREFIX \o <<"o">>
    /\ calls[f][1].arg.clientConfig.headers[4][1] = <<"o">>

\* C8: the issue call carries the bytes of a non-empty request body, all of
\* them and in order, and carries null (not an empty sequence) for a request
\* without body bytes.
C8_BodyRoundTrip ==
  \A f \in Fetches :
    \A i \in CallsOf(f, CMD_FETCH) :
      LET b == req[f].body
          d == calls[f][i].arg.clientConfig.data
      IN  IF Len(b) > 0
            THEN /\ d # None
                 /\ Len(Get(d)) = Len(b)
                 /\ \A k \in 1..Len(b) : Get(d)[k] = b[k]
            ELSE d = None

C8_Witness ==
  /\ \E f \in Fetches :
       /\ CallsOf(f, CMD_FETCH) # {}
       /\ Len(req[f].body) = MaxBodyLen
       /\ calls[f][1].arg.clientConfig.data # None
  /\ MaxBodyLen > 0

\* C9: a resolved fetch holds the status, status text, url and headers of
\* the status reply, and the bytes of the body reply, or no body when that
\* reply is empty.
C9_ResponseFromReplies ==
  \A f \in Fetches :
    pc[f] = "resolved" =>
      \E s \in CallsOf(f, CMD_SEND) : \E b \in CallsOf(f, CMD_READ_BODY) :
        LET sr == calls[f][s].reply.value
            br == calls[f][b].reply.value
            res == Get(result[f]).response
        IN  /\ calls[f][s].arg = [rid |-> Get(rid[f])]
            /\ res.status = sr.status
            /\ res.statusText = sr.statusText
            /\ res.url = sr.url
            /\ res.headers = sr.headers
            /\ res.body = IF Len(br.bytes) = 0 THEN None ELSE Some(br.bytes)

C9_Witness ==
  \E f \in Fetches :
    /\ pc[f] = "resolved"
    /\ Get(result[f]).response.url # req[f].url
    /\ Get(result[f]).response.body # None

\* C10: per fetch there is at most one issue, one status and one body call;
\* the status call exists only once the issue call has been answered and
\* carries the handle of that answer; the body call exists only once the
\* status call has been answered and carries the body handle of that answer;
\* at most one of the three is outstanding.
C10_StrictRequestReply ==
  \A f \in Fetches :
    LET L == calls[f]
        I == CallsOf(f, CMD_FETCH)
        S == CallsOf(f, CMD_SEND)
        B == CallsOf(f, CMD_READ_BODY)
    IN  /\ Cardinality(I) <= 1
        /\ Cardinality(S) <= 1
        /\ Cardinality(B) <= 1
        /\ \A s \in S : \E i \in I :
             /\ i < s
             /\ L[i].reply.state = "ok"
             /\ L[s].arg = [rid |-> L[i].reply.value]
        /\ \A b \in B : \E s \in S :
             /\ s < b
             /\ L[s].reply.state = "ok"
             /\ L[b].arg = [rid |-> L[s].reply.value.rid]
        /\ Cardinality({i \in I \cup S \cup B : L[i].reply.state = "pending"}) <= 1

C10_Witness ==
  \E f \in Fetches :
    /\ CallsOf(f, CMD_READ_BODY) # {}
    /\ \E b \in CallsOf(f, CMD_READ_BODY) : calls[f][b].reply.state = "pending"
    /\ Get(sendResponse[f]).rid # Get(rid[f])

\* C11: when the engine answers every issue, status and body call, a fetch
\* that was called settles; once settled its state and result never change;
\* and it is resolved only with a response, after the issue, status and body
\* calls have all been answered successfully.
C11_SettlesOnceNoPartialSuccess ==
  /\ \A f \in Fetches : (pc[f] # "idle") ~> Settled(f)
  /\ [][\A f \in Fetches :
          Settled(f) => (pc'[f] = pc[f] /\ result'[f] = result[f])]_vars
  /\ [](\A f \in Fetches :
          /\ Settled(f) <=> result[f] # None
          /\ pc[f] = "resolved" =>
               /\ Get(result[f]).ok
               /\ \A c \in ProtocolCmds :
                    \E i \in CallsOf(f, c) : calls[f][i].reply.state = "ok"
          /\ pc[f] = "rejected" => ~Get(result[f]).ok)

C11_Witness ==
  \E f \in Fetches :
    /\ pc[f] = "resolved"
    /\ signal[f] = "aborted"
    /\ \E i \in CallsOf(f, CMD_READ_BODY) : calls[f][i].reply.state = "ok"

\* C12: when the signal fires after the status reply has produced the body
\* handle, cancel calls are made for the request handle and for the body
\* handle.
C12_AbortCancelsBothHandles ==
  \A f \in Fetches :
    (abortedAt[f] = "body" /\ sendResponse[f] # None) =>
      /\ \E i \in CallsOf(f, CMD_CANCEL) : calls[f][i].arg = [rid |-> Get(rid[f])]
      /\ \E i \in CallsOf(f, CMD_CANCEL) :
           calls[f][i].arg = [rid |-> Get(sendResponse[f]).rid]

\* C13: the answer to a cancel call changes neither where the fetch is nor
\* its result nor the calls it has made; a fetch whose post-issue check made
\* the cancel call is rejected in that same step; and while a cancel call is
\* unanswered the status and body replies are still taken.
C13_CancelIsFireAndForget ==
  /\ [][\A f \in Fetches :
          \A i \in CallsOf(f, CMD_CANCEL) :
            (calls[f][i].reply.state = "pending"
               /\ calls'[f][i].reply.state # "pending") =>
              /\ pc'[f] = pc[f]
              /\ result'[f] = result[f]
              /\ Len(calls'[f]) = Len(calls[f])]_vars
  /\ [](\A f \in Fetches :
          /\ (abortedAt[f] = "issue" /\ CallsOf(f, CMD_CANCEL) # {}) =>
               RejectedWith(f, CancelError)
          /\ pc[f] = "status" => ENABLED (\E e \in EngineErrors : StatusReplyErr(f, e))
          /\ pc[f] = "body" => ENABLED (\E body \in BodyReplies : BodyReplyOk(f, body)))

C13_Witness ==
  \E f \in Fetches :
    /\ pc[f] = "resolved"
    /\ \E i \in CallsOf(f, CMD_CANCEL) : \E b \in CallsOf(f, CMD_READ_BODY) :
         /\ i < b
         /\ calls[f][i].reply.state = "pending"
         /\ calls[f][b].reply.state = "ok"

\* C14: with several fetches outstanding, every status and cancel call of a
\* fetch carries the handle its own issue call returned, every body call the
\* body handle its own status call returned, and none of them a handle of
\* another fetch; a step in which the signal of one fetch fires leaves the
\* calls, the state and the result of every other fetch as they are.
C14_FetchesAreIndependent ==
  /\ [](\A f \in Fetches :
          /\ \A i \in CallsOf(f, CMD_SEND) \cup CallsOf(f, CMD_CANCEL) :
               /\ rid[f] # None
               /\ calls[f][i].arg = [rid |-> Get(rid[f])]
               /\ \E j \in CallsOf(f, CMD_FETCH) :
                    calls[f][j].reply = Ok(Get(rid[f]))
          /\ \A b \in CallsOf(f, CMD_READ_BODY) :
               /\ sendResponse[f] # None
               /\ calls[f][b].arg = [rid |-> Get(sendResponse[f]).rid]
               /\ \E s \in CallsOf(f, CMD_SEND) :
                    calls[f][s].reply = Ok(Get(sendResponse[f]))
          /\ \A i \in 1..Len(calls[f]) : \A g \in Fetches \ {f} :
               calls[f][i].cmd # CMD_FETCH =>
                 /\ rid[g] # None => calls[f][i].arg.rid # Get(rid[g])
                 /\ sendResponse[g] # None =>
                      calls[f][i].arg.rid # Get(sendResponse[g]).rid)
  /\ [][\A f \in Fetches :
          signal'[f] # signal[f] =>
            \A g \in Fetches \ {f} :
              /\ calls'[g] = calls[g]
              /\ pc'[g] = pc[g]
              /\ result'[g] = result[g]
              /\ signal'[g] = signal[g]]_vars

C14_Witness ==
  \E f \in Fetches : \E g \in Fetches \ {f} :
    /\ abortedAt[f] = "status"
    /\ CallsOf(f, CMD_CANCEL) # {}
    /\ abortedAt[g] = "never"
    /\ rid[g] # None
    /\ pc[g] = "resolved"
    /\ pc[f] = "resolved"

\* C15: while the signal of a fetch is absent or has not fired, the fetch
\* has made no cancel call and is not rejected with the binding's
\* cancellation error; a fetch rejected with that error has a signal that
\* fired before the call, during the capture or during the issue call.
C15_CancellationOnlyFromAbortedSignal ==
  \A f \in Fetches :
    /\ signal[f] # "aborted" =>
         /\ CallsOf(f, CMD_CANCEL) = {}
         /\ ~RejectedWith(f, CancelError)
    /\ RejectedWith(f, CancelError) =>
         /\ signal[f] = "aborted"
         /\ abortedAt[f] \in {"idle", "capture", "issue"}

C15_Witness ==
  \E f \in Fetches :
    /\ signal[f] # "aborted"
    /\ RejectedWith(f, EngineError(ERROR_REQUEST_CANCELLED))
    /\ CallsOf(f, CMD_CANCEL) = {}

\* C16: a fetch makes at most one cancel call; it comes after an answered
\* issue call and carries its handle; it was made either by the post-issue
\* check, with no listener added, or by the listener.
C16_AtMostOneCancel ==
  \A f \in Fetches :
    /\ Cardinality(CallsOf(f, CMD_CANCEL)) <= 1
    /\ \A i \in CallsOf(f, CMD_CANCEL) :
         /\ rid[f] # None
         /\ \E j \in CallsOf(f, CMD_FETCH) :
              /\ j < i
              /\ calls[f][j].reply.state = "ok"
              /\ calls[f][i].arg = [rid |-> calls[f][j].reply.value]
         /\ \/ abortedAt[f] = "issue" /\ ~listener[f]
            \/ listener[f] /\ abortedAt[f] \in {"status", "body", "resolved", "rejected"}

C16_Witness ==
  \E f \in Fetches :
    /\ listener[f]
    /\ abortedAt[f] = "body"
    /\ Cardinality(CallsOf(f, CMD_CANCEL)) = 1

\* C17: when the signal fires after the fetch has settled past the status
\* call (resolved, or rejected after the listener was added), that step makes
\* one more call, a cancel call with the request handle, and leaves the
\* settled result as it is.
C17_AbortAfterSettleStillCancels ==
  [][\A f \in Fetches :
       (signal[f] = "live" /\ signal'[f] = "aborted" /\ Settled(f)
          /\ CallsOf(f, CMD_SEND) # {}) =>
         /\ pc'[f] = pc[f]
         /\ result'[f] = result[f]
         /\ Len(calls'[f]) = Len(calls[f]) + 1
         /\ SubSeq(calls'[f], 1, Len(calls[f])) = calls[f]
         /\ calls'[f][Len(calls'[f])].cmd = CMD_CANCEL
         /\ calls'[f][Len(calls'[f])].arg = [rid |-> Get(rid[f])]]_vars

C17_Witness ==
  \E f \in Fetches :
    /\ abortedAt[f] = "resolved"
    /\ pc[f] = "resolved"
    /\ \E i \in CallsOf(f, CMD_CANCEL) : calls[f][i].arg = [rid |-> Get(rid[f])]
====
